---------------------------- MODULE Spec2Model ----------------------------
(***************************************************************************)
(* Model of Library/Transformation.py: the field normalizers               *)
(* (country_recognition, fix_phone_numbers), the identity resolver         *)
(* (generate_name, name_from_email) and the merge engine                   *)
(* (duplicate_management, concat_industries).                              *)
(*                                                                         *)
(* A Python str is a sequence of one-character strings, so that slicing,   *)
(* case folding and pattern matching are computed character by character.  *)
(* A pandas missing value (NaN / None) is the value Null, which is not a   *)
(* str.  A raised exception is the value TypeError, AttributeError or      *)
(* ValueError, and a call that raises ends with pc = "raised".             *)
(***************************************************************************)
EXTENDS Integers, Sequences, FiniteSets, TLC

VARIABLES
    pc,             \* position of the running call
    df,             \* duplicate_management: the DataFrame, index label -> row
    order,          \* duplicate_management: index labels in the frame's row order
    rows,           \* duplicate_management: the rows df.iterrows() yields
    pos,            \* duplicate_management: number of rows already iterated
    first_records,  \* duplicate_management: dict name -> [index, [industries]]
    result,         \* value returned by the call (or the exception it raised)
    args            \* arguments of a call of one of the pure functions

vars == <<pc, df, order, rows, pos, first_records, result, args>>

----------------------------------------------------------------------------
(* Python values *)

Null == <<"nan">>
TypeError == <<"TypeError">>
AttributeError == <<"AttributeError">>
ValueError == <<"ValueError">>

isnull(v) == v = Null
notnull(v) == v # Null
IsError(v) == v \in {TypeError, AttributeError, ValueError}

UpperAlpha == <<"A","B","C","D","E","F","G","H","I","J","K","L","M",
                "N","O","P","Q","R","S","T","U","V","W","X","Y","Z">>
LowerAlpha == <<"a","b","c","d","e","f","g","h","i","j","k","l","m",
                "n","o","p","q","r","s","t","u","v","w","x","y","z">>
Digits == <<"0","1","2","3","4","5","6","7","8","9">>

Letters == DOMAIN UpperAlpha
UpperSet == {UpperAlpha[i] : i \in Letters}
LowerSet == {LowerAlpha[i] : i \in Letters}
DigitSet == {Digits[i] : i \in DOMAIN Digits}

IsUpperChar(c) == c \in UpperSet
IsLowerChar(c) == c \in LowerSet
IsDigitChar(c) == c \in DigitSet

\* the lower-case letter of each upper-case letter, and the reverse
LowerOf == [c \in UpperSet |-> LowerAlpha[CHOOSE i \in Letters : UpperAlpha[i] = c]]
UpperOf == [c \in LowerSet |-> UpperAlpha[CHOOSE i \in Letters : LowerAlpha[i] = c]]

CharLower(c) == IF IsUpperChar(c) THEN LowerOf[c] ELSE c
CharUpper(c) == IF IsLowerChar(c) THEN UpperOf[c] ELSE c

\* str.lower()
lower(s) == [i \in 1..Len(s) |-> CharLower(s[i])]

\* str.capitalize(): first character upper-cased, the rest lower-cased
capitalize(s) == [i \in 1..Len(s) |-> IF i = 1 THEN CharUpper(s[i]) ELSE CharLower(s[i])]

\* s[:n] and s[n:]
Take(s, n) == SubSeq(s, 1, IF Len(s) < n THEN Len(s) ELSE n)
Drop(s, n) == SubSeq(s, n + 1, Len(s))

\* sep.join(list)
RECURSIVE join(_, _)
join(sep, list) ==
    IF list = <<>> THEN <<>>
    ELSE IF Len(list) = 1 THEN list[1]
    ELSE list[1] \o sep \o join(sep, Tail(list))

SeqToSet(s) == {s[i] : i \in DOMAIN s}

----------------------------------------------------------------------------
(* Location Resolver *)

England == <<"E","n","g","l","a","n","d">>
Ireland == <<"I","r","e","l","a","n","d">>
Unknown == <<"U","n","k","n","o","w","n">>
NotRecognized == <<"N","o","t"," ","r","e","c","o","g","n","i","z","e","d">>
Nan == <<"N","a","n">>

\* the dict of load_country_city_database, in its insertion order
locations ==
    << [country |-> England,
        cities  |-> << <<"P","l","y","m","o","u","t","h">>,
                       <<"M","i","l","t","o","n"," ","K","e","y","n","e","s">>,
                       <<"O","x","f","o","r","d">>,
                       <<"L","o","n","d","o","n">>,
                       <<"W","i","n","c","h","e","s","t","e","r">> >>],
       [country |-> Ireland,
        cities  |-> << <<"W","a","t","e","r","f","o","r","d">>,
                       <<"L","i","m","e","r","i","c","k">>,
                       <<"D","u","b","l","i","n">>,
                       <<"C","o","r","k">> >>] >>

LocationKeys == {locations[i].country : i \in DOMAIN locations}

\* the comparison of line 65 without lower()
CityMatchesExact(place) ==
    {i \in DOMAIN locations :
        \E j \in DOMAIN locations[i].cities : place = locations[i].cities[j]}

\* the entries of the table one of whose cities equals place ignoring case
CityMatches(place) ==
    {i \in DOMAIN locations :
        \E j \in DOMAIN locations[i].cities :
            lower(place) = lower(locations[i].cities[j])}

MaxOf(S) == CHOOSE x \in S : \A y \in S : y <= x

country_recognition(place) ==
    IF isnull(place) THEN <<Nan, Nan>>
    ELSE IF place \in LocationKeys THEN <<place, Unknown>>
    ELSE LET found == CityMatches(place)
         IN  IF found # {}
             THEN <<locations[MaxOf(found)].country, place>>
             ELSE <<Unknown, NotRecognized>>

----------------------------------------------------------------------------
(* Email Extractor *)

\* '<(.*)>' matches s from the '<' at i to the '>' at j ('.' is no newline)
Encloses(s, i, j) ==
    /\ i < j
    /\ s[i] = "<"
    /\ s[j] = ">"
    /\ \A k \in (i + 1)..(j - 1) : s[k] # "\n"

\* found_emails with the default pattern: the leftmost '<', the last '>' it
\* can reach; the input itself when the pattern finds nothing
found_emails(raw_email) ==
    IF isnull(raw_email) THEN <<>>
    ELSE LET opens == {i \in DOMAIN raw_email :
                          \E j \in DOMAIN raw_email : Encloses(raw_email, i, j)}
         IN  IF opens = {} THEN raw_email
             ELSE LET i == CHOOSE x \in opens : \A y \in opens : x <= y
                      ends == {j \in DOMAIN raw_email : Encloses(raw_email, i, j)}
                      j == CHOOSE x \in ends : \A y \in ends : y <= x
                  IN  SubSeq(raw_email, i + 1, j - 1)

----------------------------------------------------------------------------
(* Phone Normalizer *)

GreatBritain == <<"G","r","e","a","t"," ","B","r","i","t","a","i","n">>
Wales == <<"W","a","l","e","s">>
NorthernIreland == <<"N","o","r","t","h","e","r","n"," ","I","r","e","l","a","n","d">>
Scotland == <<"S","c","o","t","l","a","n","d">>

country_codes_database(country) ==
    IF country = GreatBritain THEN <<"+","4","4">>
    ELSE IF country = Ireland THEN <<"+","3","5","3">>
    ELSE <<>>

\* re.sub('\D', '', s)
StripNonDigits(s) == SelectSeq(s, IsDigitChar)

\* a strip of one leading zero only
lstripOne(s) == IF s # <<>> /\ Head(s) = "0" THEN Tail(s) ELSE s

\* s.lstrip('0')
RECURSIVE lstrip0(_)
lstrip0(s) == IF s # <<>> /\ Head(s) = "0" THEN lstrip0(Tail(s)) ELSE s

fix_phone_numbers(raw_phone, country) ==
    IF isnull(raw_phone) THEN Nan
    ELSE LET c == IF country \in {England, Wales, NorthernIreland, Scotland}
                  THEN GreatBritain ELSE country
             phone_code == country_codes_database(c)
             phone_numbers == lstrip0(StripNonDigits(raw_phone))
         IN  <<"(">> \o phone_code \o <<")", " ">> \o Take(phone_numbers, 4)
                 \o <<" ">> \o Drop(phone_numbers, 4)

----------------------------------------------------------------------------
(* Identity Resolver *)

\* end of the longest run of lower-case letters of s that starts at i
RECURSIVE RunEnd(_, _)
RunEnd(s, i) ==
    IF i + 1 <= Len(s) /\ IsLowerChar(s[i + 1]) THEN RunEnd(s, i + 1) ELSE i

\* '([a-z]+)_([a-z]+)' matches s starting at position i
MatchesAt(s, i) ==
    /\ IsLowerChar(s[i])
    /\ LET j == RunEnd(s, i)
       IN  /\ j + 2 <= Len(s)
           /\ s[j + 1] = "_"
           /\ IsLowerChar(s[j + 2])

MinOf(S) == CHOOSE x \in S : \A y \in S : x <= y

\* re.search(pattern, email) with the default pattern; then group(1), group(2)
name_from_email(email) ==
    LET starts == {i \in DOMAIN email : MatchesAt(email, i)}
    IN  IF starts = {} THEN AttributeError
        ELSE LET i == MinOf(starts)
                 j == RunEnd(email, i)
                 k == RunEnd(email, j + 2)
             IN  capitalize(SubSeq(email, i, j)) \o <<" ">>
                     \o capitalize(SubSeq(email, j + 2, k))

\* str + str; a NaN operand raises
Concat3(a, b, c) ==
    IF isnull(a) \/ isnull(c) THEN TypeError ELSE a \o b \o c

generate_name(row) ==
    IF \/ (isnull(row.firstname) /\ isnull(row.lastname))
       \/ (row.firstname = <<>> /\ row.lastname = <<>>)
    THEN IF row.raw_email = <<>> \/ isnull(row.raw_email)
         THEN <<>>
         ELSE name_from_email(row.raw_email)
    ELSE Concat3(row.firstname, <<" ">>, row.lastname)

----------------------------------------------------------------------------
(* Merge Engine: the DataFrame *)

\* the columns of the frame, 'createdAt' and 'industry' among them
Columns == {"firstname", "lastname", "raw_email", "createdAt", "industry", "phone"}

\* pd.NaT, the missing instant; a parsed instant is a positive number
NaT == 0

RECURSIVE DigitsValue(_)
DigitsValue(s) ==
    IF s = <<>> THEN 0
    ELSE 10 * DigitsValue(SubSeq(s, 1, Len(s) - 1))
            + (CHOOSE i \in DOMAIN Digits : Digits[i] = s[Len(s)]) - 1

\* pd.to_datetime on one cell, for the cells of the record sets below: a
\* missing cell is NaT, a four-digit year is the instant of that year, and a
\* text that is no date raises
CanParse(s) == isnull(s) \/ (Len(s) = 4 /\ \A i \in DOMAIN s : IsDigitChar(s[i]))
to_datetime(s) == IF isnull(s) THEN NaT ELSE DigitsValue(s)

\* the cell is missing: pd.isnull(cell) or cell == ""
Missing(column, v) == IF column = "createdAt" THEN v = NaT ELSE isnull(v) \/ v = <<>>
\* pd.notnull(cell) and cell != ""
Present(column, v) == IF column = "createdAt" THEN v # NaT ELSE notnull(v) /\ v # <<>>

Labels(d) == DOMAIN d

\* every order of the index labels in S
RECURSIVE Orders(_)
Orders(S) ==
    IF S = {} THEN {<<>>}
    ELSE UNION {{<<l>> \o o : o \in Orders(S \ {l})} : l \in S}

\* sort_values with ascending=True
SortedAscending(d) ==
    {o \in Orders(Labels(d)) :
        \A i \in 1..(Len(o) - 1) : d[o[i]].createdAt <= d[o[i + 1]].createdAt}

\* df.sort_values(by=['createdAt'], ascending=False): the orders sort_values may
\* leave the rows in (rows of equal createdAt in any order, NaT last)
SortedOrders(d) ==
    {o \in Orders(Labels(d)) :
        \A i \in 1..(Len(o) - 1) : d[o[i]].createdAt >= d[o[i + 1]].createdAt}

----------------------------------------------------------------------------
(* Merge Engine: duplicate_management *)

\* position of name among the keys of first_records, 0 when it is no key
KeyPos(fr, name) ==
    IF \E i \in DOMAIN fr : fr[i].name = name
    THEN CHOOSE i \in DOMAIN fr : fr[i].name = name
    ELSE 0

\* the skip of lines 283-284 left out
DroppedNever(name) == FALSE

\* lines 283-284: the record is skipped
Dropped(name) == name = <<>>

\* lines 290-295 without the test that the representative's cell is missing
BackfillOverwrites(latest, row) ==
    [column \in Columns |->
        IF column = "industry" THEN latest[column]
        ELSE IF Present(column, row[column]) THEN row[column] ELSE latest[column]]

\* lines 290-295: the representative after the older record row was seen
Backfill(latest, row) ==
    [column \in Columns |->
        IF column = "industry" THEN latest[column]
        ELSE IF Missing(column, latest[column]) /\ Present(column, row[column])
             THEN row[column]
             ELSE latest[column]]

\* line 298 with append in place of insert(0, ..)
AddIndustryAtBack(industries, industry) ==
    IF industry \notin SeqToSet(industries)
    THEN industries \o <<industry>>
    ELSE industries

\* lines 297-298 without the membership test
AddIndustryAlways(industries, industry) == <<industry>> \o industries

\* lines 297-298: the industry list after the older record row was seen (the
\* NaN cells of a frame are one object, which `in` finds by identity)
AddIndustry(industries, industry) ==
    IF industry \notin SeqToSet(industries)
    THEN <<industry>> \o industries
    ELSE industries

\* line 249 without the leading semicolon
SerializeNoLead(industries) == join(<<";">>, industries)

\* concat_industries, line 249
Serialize(industries) == <<";">> \o join(<<";">>, industries)

\* concat_industries raises when it joins a list that holds a NaN
JoinRaises(fr) ==
    \E i \in DOMAIN fr : Len(fr[i].industries) > 1 /\ Null \in SeqToSet(fr[i].industries)

\* concat_industries: the frame after the loop of lines 244-250
ConcatFrame(d, fr) ==
    [l \in DOMAIN d |->
        IF \E i \in DOMAIN fr : fr[i].index = l /\ Len(fr[i].industries) > 1
        THEN LET i == CHOOSE i \in DOMAIN fr : fr[i].index = l
             IN  [d[l] EXCEPT !["industry"] = Serialize(fr[i].industries)]
        ELSE d[l]]

\* lines 275-276: parse createdAt and sort, most recent first
ParseAndSort ==
    /\ pc = "input"
    /\ IF \E l \in DOMAIN df : ~CanParse(df[l].createdAt)
       THEN /\ pc' = "raised"
            /\ result' = ValueError
            /\ UNCHANGED <<df, order, rows, pos, first_records, args>>
       ELSE LET parsed == [l \in DOMAIN df |->
                              [df[l] EXCEPT !["createdAt"] = to_datetime(@)]]
            IN  /\ df' = parsed
                /\ order' \in SortedOrders(parsed)
                /\ rows' = [i \in DOMAIN order' |-> parsed[order'[i]]]
                /\ pc' = "loop"
                /\ UNCHANGED <<pos, first_records, result, args>>

\* lines 280-298: one turn of the loop over df.iterrows()
IterateRow ==
    /\ pc = "loop"
    /\ pos < Len(order)
    /\ LET index == order[pos + 1]
           row == rows[pos + 1]
           name == generate_name(row)
           k == KeyPos(first_records, name)
       IN  IF IsError(name)
           THEN /\ pc' = "raised"
                /\ result' = name
                /\ UNCHANGED <<df, order, rows, pos, first_records, args>>
           ELSE /\ pos' = pos + 1
                /\ IF Dropped(name)
                   THEN UNCHANGED <<df, first_records>>
                   ELSE IF k = 0
                   THEN /\ first_records' =
                              Append(first_records,
                                     [name |-> name, index |-> index,
                                      industries |-> <<row.industry>>])
                        /\ UNCHANGED df
                   ELSE LET index_of_latest == first_records[k].index
                        IN  /\ df' = [df EXCEPT ![index_of_latest] = Backfill(@, row)]
                            /\ first_records' =
                                  [first_records EXCEPT
                                      ![k].industries = AddIndustry(@, row.industry)]
                /\ UNCHANGED <<pc, order, rows, result, args>>

\* lines 301-306: concat_industries, then keep the representatives only
ConcatAndFilter ==
    /\ pc = "loop"
    /\ pos = Len(order)
    /\ IF JoinRaises(first_records)
       THEN /\ pc' = "raised"
            /\ result' = TypeError
            /\ UNCHANGED <<df, order, rows, pos, first_records, args>>
       ELSE /\ df' = ConcatFrame(df, first_records)
            /\ result' = [i \in DOMAIN first_records |->
                             [index |-> first_records[i].index,
                              row |-> df'[first_records[i].index]]]
            /\ pc' = "done"
            /\ UNCHANGED <<order, rows, pos, first_records, args>>

----------------------------------------------------------------------------
(* The record sets given to duplicate_management *)

MaxRecords == 3

AnnFirst == <<"A","n","n">>
LeeLast == <<"L","e","e">>
BobFirst == <<"B","o","b">>
RayLast == <<"R","a","y">>
AnnMail == <<"A"," ","<","a","n","n","_","l","e","e","4","@","x",">">>
Meat == <<"M","e","a","t">>
Milling == <<"M","i","l","l","i","n","g">>
Dairy == <<"D","a","i","r","y">>
PhoneA == <<"1","2","3">>
PhoneB == <<"4","5","6">>

Years == << <<"2","0","2","1">>, <<"2","0","2","2">>, <<"2","0","2","3">>,
            <<"2","0","2","4">>, <<"2","0","2","5">> >>
BadDate == <<"s","o","o","n">>

\* who a record is about: firstname, lastname, raw_email
AnnByName == [firstname |-> AnnFirst, lastname |-> LeeLast, raw_email |-> Null]
AnnByMail == [firstname |-> Null, lastname |-> Null, raw_email |-> AnnMail]
BobByName == [firstname |-> BobFirst, lastname |-> RayLast, raw_email |-> <<>>]
HalfNamed == [firstname |-> Null, lastname |-> <<>>, raw_email |-> AnnMail]
Nobody == [firstname |-> <<>>, lastname |-> <<>>, raw_email |-> <<>>]

RowOf(person, created, industry, phone) ==
    [column \in Columns |->
        CASE column = "firstname" -> person.firstname
          [] column = "lastname"  -> person.lastname
          [] column = "raw_email" -> person.raw_email
          [] column = "createdAt" -> created
          [] column = "industry"  -> industry
          [] column = "phone"     -> phone]

\* what a record holds besides its createdAt
Contents(persons, industries, phones) ==
    {[person |-> p, industry |-> i, phone |-> ph] :
        p \in persons, i \in industries, ph \in phones}

\* createdAt columns of n records with distinct dates: oldest first, newest
\* first, or the newest record second
DistinctDates(n) ==
    { [l \in 0..(n - 1) |-> Years[l + 1]],
      [l \in 0..(n - 1) |-> Years[n - l]],
      [l \in 0..(n - 1) |-> Years[IF l = 1 THEN n ELSE IF l = n - 1 THEN 2 ELSE l + 1]] }

\* createdAt columns of n records whose cells may be equal, missing or no date
AnyDates(n) == [0..(n - 1) -> {Years[1], Years[2], Null, BadDate}]

Frame(n, c, t) ==
    [l \in 0..(n - 1) |-> RowOf(c[l].person, t[l], c[l].industry, c[l].phone)]

InitCall(d) ==
    /\ pc = "input"
    /\ df = d
    /\ order = <<>>
    /\ rows = <<>>
    /\ pos = 0
    /\ first_records = <<>>
    /\ result = <<>>
    /\ args = <<>>

Next == ParseAndSort \/ IterateRow \/ ConcatAndFilter

\* record sets that vary in identity and industry
Init ==
    \E n \in 1..MaxRecords :
        \E c \in [0..(n - 1) ->
                    Contents({AnnByName, AnnByMail, BobByName, Nobody},
                             {Meat, Milling, Dairy}, {Null})],
           t \in DistinctDates(n) :
            InitCall(Frame(n, c, t))

Spec == Init /\ [][Next]_vars

\* record sets that vary in the cells to backfill
InitFill ==
    \E n \in 1..MaxRecords :
        \E c \in [0..(n - 1) ->
                    Contents({AnnByName, AnnByMail, BobByName}, {Meat},
                             {Null, <<>>, PhoneA, PhoneB})],
           t \in DistinctDates(n) :
            InitCall(Frame(n, c, t))

SpecFill == InitFill /\ [][Next]_vars

\* record sets that vary in createdAt and hold missing names and industries
InitDates ==
    \E n \in 1..MaxRecords :
        \E c \in [0..(n - 1) ->
                    Contents({AnnByName, HalfNamed}, {Meat, Null}, {Null})],
           t \in AnyDates(n) :
            InitCall(Frame(n, c, t))

SpecDates == InitDates /\ [][Next]_vars

----------------------------------------------------------------------------
(* Calls of the pure functions *)

MaxEmailLen == 4
MaxPhoneLen == 5

\* the strings of at most n characters of alphabet
StringsUpTo(alphabet, n) == UNION {[1..m -> alphabet] : m \in 0..n}

\* s with any of its letters in the other case
CaseVariants(s) ==
    {[i \in 1..Len(s) |-> IF i \in up THEN CharUpper(s[i]) ELSE CharLower(s[i])] :
        up \in SUBSET (1..Len(s))}

InitPure(a) ==
    /\ pc = "call"
    /\ args = a
    /\ result = <<>>
    /\ df = <<>>
    /\ order = <<>>
    /\ rows = <<>>
    /\ pos = 0
    /\ first_records = <<>>

Return(value) ==
    /\ pc' = IF IsError(value) THEN "raised" ELSE "returned"
    /\ result' = value
    /\ UNCHANGED <<df, order, rows, pos, first_records, args>>

\* generate_name(row)
CallGenerateName ==
    /\ pc = "call"
    /\ Return(generate_name(args))

InitName ==
    \E f \in {Null, <<>>, AnnFirst}, l \in {Null, <<>>, LeeLast},
       e \in {Null, AnnMail} \cup StringsUpTo({"a", "B", "_", "4"}, MaxEmailLen) :
        InitPure([firstname |-> f, lastname |-> l, raw_email |-> e])

SpecName == InitName /\ [][CallGenerateName]_vars

\* country_recognition(place)
CallCountryRecognition ==
    /\ pc = "call"
    /\ Return(country_recognition(args))

Atlantis == <<"A","t","l","a","n","t","i","s">>

Places ==
    {Null, <<>>, Atlantis, Wales, GreatBritain, Unknown, Nan}
        \cup UNION {CaseVariants(locations[i].country) : i \in DOMAIN locations}
        \cup UNION {CaseVariants(locations[i].cities[j]) :
                        i \in DOMAIN locations, j \in {3, 4}}
        \cup UNION {{c, lower(c), c \o <<" ">>, <<" ">> \o c, Tail(c),
                     SubSeq(c, 1, Len(c) - 1)} :
                        c \in UNION {SeqToSet(locations[i].cities) : i \in DOMAIN locations}}

InitPlace == \E p \in Places : InitPure(p)

SpecPlace == InitPlace /\ [][CallCountryRecognition]_vars

\* fix_phone_numbers(raw_phone, country)
CallFixPhoneNumbers ==
    /\ pc = "call"
    /\ Return(fix_phone_numbers(args.raw_phone, args.country))

ScotsPhone == <<"0","7","9","1","1"," ","1","2","3","4","5","6">>

Countries ==
    {Null, <<>>, England, Wales, NorthernIreland, Scotland, GreatBritain, Ireland,
     lower(England), Atlantis}

InitPhone ==
    \E p \in {Null, ScotsPhone} \cup StringsUpTo({"0", "7", "1", "-"}, MaxPhoneLen),
       c \in Countries :
        InitPure([raw_phone |-> p, country |-> c])

SpecPhone == InitPhone /\ [][CallFixPhoneNumbers]_vars

JaneLocal == <<"j","a","n","e","_","d","o","e","4","2">>
AtDomain == <<"@","x",".","c","o","m">>

\* the raw emails of a local part: the bare address, the address in angle
\* brackets, and the address in angle brackets after a display text
RawEmailsOf(local) ==
    { local \o AtDomain,
      <<"<">> \o local \o AtDomain \o <<">">>,
      <<"a","_","a"," ","<">> \o local \o AtDomain \o <<">">> }

\* calls of generate_name that fall back to raw_email, or have both names
InitFallback ==
    \E names \in {<<Null, Null>>, << <<>>, <<>> >>, <<AnnFirst, LeeLast>>},
       local \in {JaneLocal} \cup StringsUpTo({"a", "B", "_", "4"}, MaxEmailLen) :
        \E e \in RawEmailsOf(local) :
            InitPure([firstname |-> names[1], lastname |-> names[2], raw_email |-> e])

SpecFallback == InitFallback /\ [][CallGenerateName]_vars

\* found_emails(raw_email)
CallFoundEmails ==
    /\ pc = "call"
    /\ args.component = "found_emails"
    /\ Return(found_emails(args.input))

\* the other components, called on the input of a record [component, input]
CallPlaceOf ==
    /\ pc = "call"
    /\ args.component = "country_recognition"
    /\ Return(country_recognition(args.input))

CallPhoneOf ==
    /\ pc = "call"
    /\ args.component = "fix_phone_numbers"
    /\ Return(fix_phone_numbers(args.input.raw_phone, args.input.country))

CallNameOf ==
    /\ pc = "call"
    /\ args.component = "generate_name"
    /\ Return(generate_name(args.input))

HiMail == <<"h","i"," ","<","a",".","b","@","x",".","c","o","m",">"," ","b","y","e">>

\* calls of the four components on absent, empty and present fields
InitMissing ==
    \/ \E p \in Places :
          InitPure([component |-> "country_recognition", input |-> p])
    \/ \E p \in {Null, <<>>, ScotsPhone}, c \in Countries :
          InitPure([component |-> "fix_phone_numbers",
                    input |-> [raw_phone |-> p, country |-> c]])
    \/ \E e \in {Null, <<>>, AnnMail, HiMail}
                  \cup StringsUpTo({"a", "<", ">"}, MaxEmailLen - 1) :
          InitPure([component |-> "found_emails", input |-> e])
    \/ \E f \in {Null, <<>>, AnnFirst}, l \in {Null, <<>>, LeeLast},
          e \in {Null, <<>>, AnnMail} :
          InitPure([component |-> "generate_name",
                    input |-> [firstname |-> f, lastname |-> l, raw_email |-> e]])

NextMissing == CallPlaceOf \/ CallPhoneOf \/ CallFoundEmails \/ CallNameOf

SpecMissing == InitMissing /\ [][NextMissing]_vars

----------------------------------------------------------------------------
(* Properties of the merge engine *)

\* the identity key of an input record
Identity(row) == generate_name(row)

\* the positions of the input records whose identity key is key
Sharing(key) == {i \in DOMAIN rows : Identity(rows[i]) = key}

\* the distinct non-empty identity keys of the input
InputKeys == {Identity(rows[i]) : i \in DOMAIN rows} \ {<<>>}

\* the input record that carries index label l
InputRow(l) == rows[CHOOSE i \in DOMAIN order : order[i] = l]

\* C1: the output of duplicate_management holds exactly one record for each
\* distinct non-empty identity key of the input and no other record: as many
\* records as there are such keys, each an input record (by index label) of a
\* different non-empty key, which the emitted record still resolves to
OneRecordPerIdentity ==
    pc = "done" =>
        /\ Len(result) = Cardinality(InputKeys)
        /\ \A key \in InputKeys :
              Cardinality({i \in DOMAIN result :
                              Identity(InputRow(result[i].index)) = key}) = 1
        /\ \A i \in DOMAIN result :
              /\ result[i].index \in SeqToSet(order)
              /\ Identity(InputRow(result[i].index)) # <<>>
              /\ Identity(result[i].row) = Identity(InputRow(result[i].index))

\* C1 witness: a finished merge of two records of one identity and a record
\* of empty identity
OneRecordPerIdentityWitness ==
    /\ pc = "done"
    /\ Len(rows) = 3
    /\ Cardinality(InputKeys) = 1
    /\ \E i \in DOMAIN rows : Identity(rows[i]) = <<>>
    /\ Len(result) = 1

\* the most recent of the records at positions S
MostRecent(S) == CHOOSE i \in S : \A j \in S : rows[j].createdAt <= rows[i].createdAt

\* the records at positions S have distinct timestamps
DistinctStamps(S) ==
    \A i, j \in S : i # j => rows[i].createdAt # rows[j].createdAt

\* C2: after the merge pass every field but industry of a canonical record
\* holds the value of the most recent record of its identity in which the
\* field is present, is missing only if it is missing in all records of the
\* identity, and createdAt is that of the identity's most recent record
MostRecentPresentValue ==
    pc = "done" =>
        \A r \in DOMAIN result :
            LET S == Sharing(Identity(InputRow(result[r].index)))
            IN  DistinctStamps(S) =>
                   /\ result[r].row.createdAt = rows[MostRecent(S)].createdAt
                   /\ \A column \in Columns \ {"industry"} :
                         LET P == {i \in S : Present(column, rows[i][column])}
                         IN  IF P = {}
                             THEN Missing(column, result[r].row[column])
                             ELSE result[r].row[column] = rows[MostRecent(P)][column]

\* C2 witness: a finished merge whose canonical record took its phone from the
\* oldest of three records, the two more recent ones holding NaN and ''
MostRecentPresentValueWitness ==
    /\ pc = "done"
    /\ Len(rows) = 3
    /\ Len(result) = 1
    /\ rows[1].phone = Null
    /\ rows[2].phone = <<>>
    /\ rows[3].phone = PhoneB
    /\ result[1].row.phone = PhoneB
    /\ result[1].row.firstname = AnnFirst
    /\ rows[1].firstname = Null

\* C3: a turn of the loop leaves every present field (but industry) of every
\* record as it is, and writes a field only of the representative of the
\* iterated record's identity, only when it is missing there and present in
\* the iterated record, whose value it takes
BackfillOnlyFillsGaps ==
    [][pc = "loop" /\ pc' = "loop" =>
        \A l \in DOMAIN df : \A column \in Columns \ {"industry"} :
            /\ Present(column, df[l][column]) => df'[l][column] = df[l][column]
            /\ df'[l][column] # df[l][column] =>
                  /\ Missing(column, df[l][column])
                  /\ Present(column, rows[pos + 1][column])
                  /\ df'[l][column] = rows[pos + 1][column]
                  /\ \E k \in DOMAIN first_records :
                        /\ first_records[k].index = l
                        /\ first_records[k].name = Identity(rows[pos + 1])]_vars

\* C3 witness: an older record of the representative's identity was iterated
\* whose phone is present and differs from the representative's present phone
BackfillOnlyFillsGapsWitness ==
    /\ pc = "loop"
    /\ pos >= 2
    /\ \E i \in 2..pos :
          /\ Identity(rows[i]) = Identity(rows[1])
          /\ Present("phone", rows[1].phone)
          /\ Present("phone", rows[i].phone)
          /\ rows[i].phone # rows[1].phone
          /\ df[order[1]].phone = rows[1].phone

\* C4: at every point of the pass the industry list of every identity holds
\* no value twice, and its values are exactly the industry values of the
\* records of that identity iterated so far: at the end of the pass, those of
\* all input records sharing the identity
IndustryListIsTheSetOfValues ==
    pc \in {"loop", "done"} =>
        /\ {first_records[k].name : k \in DOMAIN first_records}
              = {Identity(rows[i]) : i \in 1..pos} \ {<<>>}
        /\ \A k \in DOMAIN first_records :
              LET list == first_records[k].industries
              IN  /\ \A a, b \in DOMAIN list : a # b => list[a] # list[b]
                  /\ SeqToSet(list) =
                        {rows[i].industry : i \in Sharing(first_records[k].name) \cap 1..pos}

\* C4 witness: the pass is over three records of one identity whose industries
\* are, most recent first, Meat, Milling and Meat again
IndustryListIsTheSetOfValuesWitness ==
    /\ pc = "loop"
    /\ pos = 3
    /\ Len(first_records) = 1
    /\ rows[1].industry = Meat
    /\ rows[2].industry = Milling
    /\ rows[3].industry = Meat
    /\ Len(first_records[1].industries) = 2

\* every value of the list, each after a semicolon
RECURSIVE Listing(_)
Listing(list) ==
    IF list = <<>> THEN <<>> ELSE <<";">> \o Head(list) \o Listing(Tail(list))

\* C5: after the merge the industry of a canonical record is, when the list of
\* its identity holds more than one value, every value of the list in list
\* order, each after a semicolon (';X;Y;Z'), and otherwise the representative's
\* own industry value unchanged
IndustrySerialized ==
    pc = "done" =>
        \A r \in DOMAIN result :
            LET list == first_records[r].industries
            IN  /\ first_records[r].index = result[r].index
                /\ IF Len(list) > 1
                   THEN result[r].row.industry = Listing(list)
                   ELSE result[r].row.industry = InputRow(result[r].index).industry

\* C5 witness: a canonical record of three industry values and one of a single
\* value
IndustrySerializedWitness ==
    /\ pc = "done"
    /\ \E r \in DOMAIN result :
          /\ Len(first_records[r].industries) = 3
          /\ result[r].row.industry = <<";">> \o Dairy \o <<";">> \o Milling \o <<";">> \o Meat

\* C6: the concatenated industry string of an identity of more than one
\* distinct industry value lists the industry of the identity's most recent
\* record first
LatestIndustryFirst ==
    pc = "done" =>
        \A r \in DOMAIN result :
            LET S == Sharing(Identity(InputRow(result[r].index)))
                latest == rows[MostRecent(S)].industry
            IN  Cardinality({rows[i].industry : i \in S}) > 1 =>
                    Take(result[r].row.industry, Len(latest) + 1) = <<";">> \o latest

\* C7: a record set that holds a createdAt that is no timestamp does not make
\* the call abort: duplicate_management never ends in the exception that
\* parsing raises
BadDateDoesNotAbort ==
    ~(pc = "raised" /\ result = ValueError)

\* the oldest of the records at positions S
Oldest(S) == CHOOSE i \in S : \A j \in S : rows[i].createdAt <= rows[j].createdAt

\* the records at positions S whose industry no more recent record of S holds
FirstToHold(S) ==
    {i \in S : \A j \in S :
        rows[j].createdAt > rows[i].createdAt => rows[j].industry # rows[i].industry}

\* C12 as stated: when the pass is over, the first element of the industry
\* list of every identity is the industry of the identity's oldest record and
\* the last element is the representative's own industry
OldestRecordIndustryFirst ==
    pc \in {"loop", "done"} /\ pos = Len(order) =>
        \A k \in DOMAIN first_records :
            LET list == first_records[k].industries
                S == Sharing(first_records[k].name)
            IN  /\ list[1] = rows[Oldest(S)].industry
                /\ list[Len(list)] = InputRow(first_records[k].index).industry

\* C12 amended: after every turn of the loop the last element of the industry
\* list of every identity is the representative's own industry, and the first
\* element is the industry of the oldest record, among those of the identity
\* iterated so far, whose industry no more recent record of the identity
\* holds: the oldest record's industry when no more recent record shares it
OldestNewIndustryFirst ==
    pc \in {"loop", "done"} =>
        \A k \in DOMAIN first_records :
            LET list == first_records[k].industries
                S == Sharing(first_records[k].name) \cap 1..pos
            IN  /\ list[Len(list)] = InputRow(first_records[k].index).industry
                /\ first_records[k].index = order[MostRecent(S)]
                /\ list[1] = rows[Oldest(FirstToHold(S))].industry
                /\ rows[Oldest(S)].industry
                        \notin {rows[i].industry : i \in S \ {Oldest(S)}}
                      => list[1] = rows[Oldest(S)].industry

\* C12 witness: the pass is over three records of one identity of industries,
\* most recent first, Meat, Milling and Meat: Milling is first in the list
OldestNewIndustryFirstWitness ==
    /\ pc = "loop"
    /\ pos = Len(order)
    /\ Len(rows) = 3
    /\ \E k \in DOMAIN first_records :
          /\ Sharing(first_records[k].name) = {1, 2, 3}
          /\ rows[1].industry = Meat
          /\ rows[2].industry = Milling
          /\ rows[3].industry = Meat
          /\ first_records[k].industries = <<Milling, Meat>>

----------------------------------------------------------------------------
(* Properties of the pure functions *)

FieldPresent(v) == v # Null /\ v # <<>>

\* C8: generate_name returns '<firstname> <lastname>' exactly when both are
\* present and non-empty; in every other case it returns the identity derived
\* from raw_email when raw_email is present and non-empty, and '' otherwise
NameOnlyWhenBothPresent ==
    pc # "call" =>
        IF FieldPresent(args.firstname) /\ FieldPresent(args.lastname)
        THEN result = args.firstname \o <<" ">> \o args.lastname
        ELSE IF FieldPresent(args.raw_email)
             THEN result = name_from_email(args.raw_email)
             ELSE result = <<>>

\* a and b are the same character, or the two cases of one letter
SameLetter(a, b) ==
    a = b \/ \E i \in Letters : {a, b} = {UpperAlpha[i], LowerAlpha[i]}

EqualIgnoringCase(s, t) ==
    Len(s) = Len(t) /\ \A i \in DOMAIN s : SameLetter(s[i], t[i])

RECURSIVE DigitsOf(_)
DigitsOf(s) ==
    IF s = <<>> THEN <<>>
    ELSE IF Head(s) \in {"0","1","2","3","4","5","6","7","8","9"}
         THEN <<Head(s)>> \o DigitsOf(Tail(s))
         ELSE DigitsOf(Tail(s))

\* s from its first character that is not '0'
FromFirstNonZero(s) ==
    LET nz == {i \in DOMAIN s : s[i] # "0"}
    IN  IF nz = {} THEN <<>> ELSE SubSeq(s, MinOf(nz), Len(s))

DialCode(country) ==
    CASE country \in {England, Wales, NorthernIreland, Scotland, GreatBritain}
            -> <<"+","4","4">>
      [] country = Ireland -> <<"+","3","5","3">>
      [] OTHER -> <<>>

\* C10: for a present raw_phone, fix_phone_numbers returns '(' code ') ', the
\* first four digits, ' ' and the remaining digits, the digits being
\* raw_phone without its non-digits and then without leading zeros, and code
\* the dialing code of the country (the four UK countries counting as Great
\* Britain), empty for a missing or unknown country;
\* ('07911 123456','Scotland') gives '(+44) 7911 123456'
PhoneFormatted ==
    pc = "returned" /\ args.raw_phone # Null =>
        LET d == FromFirstNonZero(DigitsOf(args.raw_phone))
        IN  /\ result = <<"(">> \o DialCode(args.country) \o <<")", " ">>
                          \o [i \in 1..(IF Len(d) < 4 THEN Len(d) ELSE 4) |-> d[i]]
                          \o <<" ">>
                          \o [i \in 1..(IF Len(d) < 4 THEN 0 ELSE Len(d) - 4) |-> d[i + 4]]
            /\ args = [raw_phone |-> ScotsPhone, country |-> Scotland] =>
                  result = <<"(","+","4","4",")"," ","7","9","1","1"," ",
                             "1","2","3","4","5","6">>

\* C10 witness: the phone '07911 123456' of Scotland was formatted
PhoneFormattedWitness ==
    /\ pc = "returned"
    /\ args = [raw_phone |-> ScotsPhone, country |-> Scotland]
    /\ result = <<"(","+","4","4",")"," ","7","9","1","1"," ","1","2","3","4","5","6">>

\* the part of the address of raw_email before its '@'
LocalPart(raw_email) ==
    LET address == found_emails(raw_email)
        ats == {i \in DOMAIN address : address[i] = "@"}
    IN  IF ats = {} THEN address ELSE SubSeq(address, 1, MinOf(ats) - 1)

IsLetter(c) == c \in UpperSet \cup LowerSet

\* local is letters, '_' at u, letters up to v, then digits only
FirstLastAt(local, u, v) ==
    /\ 1 < u
    /\ u < v
    /\ v <= Len(local)
    /\ local[u] = "_"
    /\ \A i \in 1..(u - 1) : IsLetter(local[i])
    /\ \A i \in (u + 1)..v : IsLetter(local[i])
    /\ \A i \in (v + 1)..Len(local) : local[i] \in DigitSet

\* C13: when generate_name falls back to the email and the local part of the
\* email is two non-empty groups of letters of any case joined by '_', with
\* digits after them at most, the identity is the first group capitalized, a
\* space and the second group capitalized, whatever the display text and the
\* domain; the local part 'jane_doe42' gives 'Jane Doe'
NameFromLocalPart ==
    pc # "call" /\ ~(FieldPresent(args.firstname) /\ FieldPresent(args.lastname)) =>
        LET local == LocalPart(args.raw_email)
        IN  \A u, v \in DOMAIN local :
                FirstLastAt(local, u, v) =>
                    result = capitalize(SubSeq(local, 1, u - 1)) \o <<" ">>
                                \o capitalize(SubSeq(local, u + 1, v))

----------------------------------------------------------------------------
(* Properties across the components *)

\* a field with an absent value made empty, or an empty one made absent
Swapped(v) == IF v \in {Null, <<>>} THEN {Null, <<>>} ELSE {v}

\* C11: every component treats an empty field like an absent one: the result
\* of the Location Resolver (place), the Phone Normalizer (raw_phone), the
\* Email Extractor (raw_email) and the Identity Resolver (firstname, lastname,
\* raw_email in any mix) is the result for the input with absent fields made
\* empty or the reverse
EmptyLikeAbsent ==
    pc # "call" =>
        CASE args.component = "country_recognition" ->
                \A p \in Swapped(args.input) : country_recognition(p) = result
          [] args.component = "fix_phone_numbers" ->
                \A p \in Swapped(args.input.raw_phone) :
                    fix_phone_numbers(p, args.input.country) = result
          [] args.component = "found_emails" ->
                \A e \in Swapped(args.input) : found_emails(e) = result
          [] args.component = "generate_name" ->
                \A f \in Swapped(args.input.firstname),
                   l \in Swapped(args.input.lastname),
                   e \in Swapped(args.input.raw_email) :
                    generate_name([firstname |-> f, lastname |-> l, raw_email |-> e])
                        = result

=============================================================================
